---- MODULE Spec2Model ----
(***************************************************************************)
(* HCO_QUANT: the history store of backend/src/agents/report_agent.py, the *)
(* decision engine and the indicators of                                   *)
(* backend/src/agents/strategy_agent.py, and the orchestrator of           *)
(* backend/src/pipelines/quant_async_pipeline.py.                          *)
(*                                                                         *)
(* Spec        writers of save_history_entry running in parallel threads   *)
(*             or processes, no I/O fault                                  *)
(* SpecSerial  one save_history_entry call at a time, with process crashes *)
(*             and I/O faults, and a reader calling load_history           *)
(* SpecDecide  decide_signal applied to SMA and RSI values, NaN included   *)
(* SpecSignal  rsi, compute_indicators and generate_latest_signal applied  *)
(*             to a price series                                           *)
(* SpecPipeline  process_asset_pipeline run as asyncio tasks by the        *)
(*             single, multi and dashboard endpoints of                    *)
(*             backend/src/api/hco_quant_api.py                            *)
(***************************************************************************)
EXTENDS Integers, Sequences, FiniteSets, TLC

VARIABLES disk, pc, entry, data, fd, calls, last, rd, sig, orch

vars == <<disk, pc, entry, data, fd, calls, last, rd, sig, orch>>

storeVars == <<disk, pc, entry, data, fd, calls, last, rd>>

(***************************************************************************)
(* Bounds of the model.                                                    *)
(***************************************************************************)
NumWriters == 2
MaxCalls == 2
MaxSec == 0

Writers == 1..NumWriters

\* datetime.now(): the second and the microsecond of the clock reading; the
\* microsecond is either zero or not, which is what isoformat() looks at.
Instants == [sec : 0..MaxSec, usec : {0, 1}]

(***************************************************************************)
(* Timestamps.  process_latest_signal stores datetime.now().isoformat(), a *)
(* string; save_history_entry sorts on that string.  The string is         *)
(* modelled by its fields: "...:SS" when the microsecond is 0, and         *)
(* "...:SS.ffffff" otherwise (the date and time fields are of fixed        *)
(* width, so the comparison of two strings is the lexicographic one of     *)
(* their field sequences, a proper prefix being the smaller).              *)
(***************************************************************************)
isoformat(t) == IF t.usec = 0 THEN <<t.sec>> ELSE <<t.sec, t.usec>>

fromisoformat(s) == [sec |-> s[1], usec |-> IF Len(s) = 1 THEN 0 ELSE s[2]]

\* Python's str.__lt__
RECURSIVE StrLess(_, _)
StrLess(a, b) ==
    IF a = <<>> THEN b # <<>>
    ELSE IF b = <<>> THEN FALSE
    ELSE IF Head(a) # Head(b) THEN Head(a) < Head(b)
    ELSE StrLess(Tail(a), Tail(b))

\* the order of the instants themselves
InstantLeq(s, t) == s.sec < t.sec \/ (s.sec = t.sec /\ s.usec <= t.usec)

\* process_latest_signal: the history entry of one decision; id stands for
\* the fields copied from the signal (symbol, action, price, ...).
process_latest_signal(id, now) == [id |-> id, timestamp |-> isoformat(now)]

(***************************************************************************)
(* The file system.  disk.hist is HISTORY_FILE and disk.tmp is             *)
(* HISTORY_FILE + ".tmp".  A content is absent, empty (size 0), partial    *)
(* (some bytes that do not parse as JSON) or json (the complete            *)
(* serialization of a list of records).  owner is the writer whose bytes   *)
(* alone make up an unfinished content (the last one to truncate it), 0    *)
(* when there is none.                                                     *)
(***************************************************************************)
Absent == [kind |-> "absent", recs |-> <<>>, owner |-> 0]
EmptyFile(w) == [kind |-> "empty", recs |-> <<>>, owner |-> w]
PartialFile(w) == [kind |-> "partial", recs |-> <<>>, owner |-> w]

\* json.dump(data, f, indent=2, default=str): every field of an entry is a
\* JSON string or number, which json.load gives back unchanged.
JsonFile(recs) == [kind |-> "json", recs |-> recs, owner |-> 0]

\* the body of the try block of load_history
TryLoad(c, ioerr) ==
    IF c.kind \in {"absent", "empty"}
    THEN [exc |-> "none", returned |-> FALSE, value |-> <<>>]
    ELSE IF ioerr
    THEN [exc |-> "OSError", returned |-> FALSE, value |-> <<>>]
    ELSE IF c.kind = "json"
    THEN [exc |-> "none", returned |-> TRUE, value |-> c.recs]
    ELSE [exc |-> "JSONDecodeError", returned |-> FALSE, value |-> <<>>]

\* mutant: only JSONDecodeError is handled
LoadHistory_NoCatchAll(c, ioerr) ==
    LET t == TryLoad(c, ioerr) IN
    IF t.exc = "none" /\ t.returned
    THEN [result |-> t.value, warned |-> FALSE, raised |-> FALSE]
    ELSE IF t.exc = "none"
    THEN [result |-> <<>>, warned |-> FALSE, raised |-> FALSE]
    ELSE IF t.exc = "JSONDecodeError"
    THEN [result |-> <<>>, warned |-> TRUE, raised |-> FALSE]
    ELSE [result |-> <<>>, warned |-> FALSE, raised |-> TRUE]

\* load_history: the try block and its two handlers
LoadHistory(c, ioerr) ==
    LET t == TryLoad(c, ioerr) IN
    IF t.exc = "none" /\ t.returned
    THEN [result |-> t.value, warned |-> FALSE, raised |-> FALSE]
    ELSE IF t.exc = "none"
    THEN [result |-> <<>>, warned |-> FALSE, raised |-> FALSE]
    ELSE [result |-> <<>>, warned |-> TRUE, raised |-> FALSE]

\* x.get('timestamp', '0')
SortKey(x) == x.timestamp

\* mutant: an element goes before the elements of equal key
RECURSIVE InsertByKey_BeforeTies(_, _)
InsertByKey_BeforeTies(s, x) ==
    IF s = <<>> THEN <<x>>
    ELSE IF ~StrLess(SortKey(Head(s)), SortKey(x)) THEN <<x>> \o s
    ELSE <<Head(s)>> \o InsertByKey_BeforeTies(Tail(s), x)

\* list.sort(key=..., reverse=False) is stable: an element goes after every
\* element whose key is not greater.
RECURSIVE InsertByKey(_, _)
InsertByKey(s, x) ==
    IF s = <<>> THEN <<x>>
    ELSE IF StrLess(SortKey(x), SortKey(Head(s))) THEN <<x>> \o s
    ELSE <<Head(s)>> \o InsertByKey(Tail(s), x)

\* mutant: the list is written in the order of arrival
SortByTimestamp_Unsorted(s) == s

RECURSIVE SortByTimestamp(_)
SortByTimestamp(s) ==
    IF s = <<>> THEN <<>>
    ELSE InsertByKey(SortByTimestamp(SubSeq(s, 1, Len(s) - 1)), s[Len(s)])

\* mutant: the entry is not appended
AppendAndSort_NoAppend(loaded, e) == SortByTimestamp(loaded)

\* data = load_history(); data.append(entry); data.sort(...)
AppendAndSort(loaded, e) == SortByTimestamp(Append(loaded, e))

(***************************************************************************)
(* A write through a descriptor.  fd[w] names where the inode that w       *)
(* opened is now: "tmp", "hist" once another writer's os.replace renamed   *)
(* it onto HISTORY_FILE, "orphan" once it has no name left.  A writer      *)
(* whose bytes are alone in the inode leaves what it meant to; otherwise   *)
(* two writers' bytes mix, and the outcome is either unparseable or, when  *)
(* the last flush covers everything, the writer's own complete content.    *)
(***************************************************************************)
WriteOutcomes(c, w, final) ==
    IF c.owner = w
    THEN {IF final THEN JsonFile(data[w]) ELSE PartialFile(w)}
    ELSE {PartialFile(0)} \cup (IF final THEN {JsonFile(data[w])} ELSE {})

WriteThrough(w, final) ==
    CASE fd[w] = "tmp" ->
            \E c \in WriteOutcomes(disk.tmp, w, final) :
                disk' = [disk EXCEPT !.tmp = c]
      [] fd[w] = "hist" ->
            \E c \in WriteOutcomes(disk.hist, w, final) :
                disk' = [disk EXCEPT !.hist = c]
      [] OTHER -> disk' = disk

\* no entry in hand, no call finished yet, no load_history call made yet
Idle == [id |-> -1, timestamp |-> <<>>]
NoCall == [entry |-> Idle, outcome |-> "none"]
NoRead == [result |-> <<>>, warned |-> FALSE, raised |-> FALSE, ioerr |-> FALSE,
           src |-> Absent, after |-> Absent, for |-> NoCall]

\* no call of the strategy agent in progress
NoSignal == [op |-> "none"]

\* no request of the API in progress
NoRequest == [ep |-> "none"]

Finish(w, outcome) ==
    /\ last' = [entry |-> entry[w], outcome |-> outcome]
    /\ pc' = [pc EXCEPT ![w] = "idle"]
    /\ entry' = [entry EXCEPT ![w] = Idle]
    /\ data' = [data EXCEPT ![w] = <<>>]

(***************************************************************************)
(* save_history_entry, one step per file-system call.                      *)
(***************************************************************************)
\* the caller builds the entry and calls save_history_entry
Call(w, now) ==
    /\ pc[w] = "idle"
    /\ calls < MaxCalls
    /\ calls' = calls + 1
    /\ entry' = [entry EXCEPT ![w] = process_latest_signal(calls + 1, now)]
    /\ pc' = [pc EXCEPT ![w] = "load"]
    /\ UNCHANGED <<disk, data, fd, last, rd, sig, orch>>

\* lines 88-90
SaveLoad(w, ioerr) ==
    /\ pc[w] = "load"
    /\ data' = [data EXCEPT ![w] =
                    AppendAndSort(LoadHistory(disk.hist, ioerr).result, entry[w])]
    /\ pc' = [pc EXCEPT ![w] = "open"]
    /\ UNCHANGED <<disk, entry, fd, calls, last, rd, sig, orch>>

\* mutant: the history file itself is opened for writing
OpenTmp_InPlace(w) ==
    /\ pc[w] = "open"
    /\ disk' = [disk EXCEPT !.hist = EmptyFile(w)]
    /\ fd' = [fd EXCEPT ![w] = "hist"]
    /\ pc' = [pc EXCEPT ![w] = "write"]
    /\ UNCHANGED <<entry, data, calls, last, rd, sig, orch>>

\* line 93: open(tmp_file, "w") creates the file or truncates the one there
OpenTmp(w) ==
    /\ pc[w] = "open"
    /\ disk' = [disk EXCEPT !.tmp = EmptyFile(w)]
    /\ fd' = [fd EXCEPT ![w] = "tmp"]
    /\ pc' = [pc EXCEPT ![w] = "write"]
    /\ UNCHANGED <<entry, data, calls, last, rd, sig, orch>>

\* line 94: the buffer fills up and a first part of the text reaches the file
FlushTmp(w) ==
    /\ pc[w] = "write"
    /\ WriteThrough(w, FALSE)
    /\ pc' = [pc EXCEPT ![w] = "flushed"]
    /\ UNCHANGED <<entry, data, fd, calls, last, rd, sig, orch>>

\* the end of the with block: the rest is flushed and the file closed
CloseTmp(w) ==
    /\ pc[w] \in {"write", "flushed"}
    /\ WriteThrough(w, TRUE)
    /\ fd' = [fd EXCEPT ![w] = "none"]
    /\ pc' = [pc EXCEPT ![w] = "replace"]
    /\ UNCHANGED <<entry, data, calls, last, rd, sig, orch>>

\* line 96: os.replace(tmp_file, HISTORY_FILE); FileNotFoundError when the
\* temporary file is gone, caught at line 98
Replace(w) ==
    /\ pc[w] = "replace"
    /\ IF disk.tmp.kind = "absent"
       THEN /\ Finish(w, "error")
            /\ UNCHANGED <<disk, fd>>
       ELSE /\ disk' = [hist |-> disk.tmp, tmp |-> Absent]
            /\ fd' = [v \in Writers |->
                        IF fd[v] = "tmp" THEN "hist"
                        ELSE IF fd[v] = "hist" THEN "orphan" ELSE fd[v]]
            /\ Finish(w, "ok")
    /\ UNCHANGED <<calls, rd, sig, orch>>

Init ==
    /\ disk \in [hist : {Absent, JsonFile(<<>>)}, tmp : {Absent}]
    /\ pc = [w \in Writers |-> "idle"]
    /\ entry = [w \in Writers |-> Idle]
    /\ data = [w \in Writers |-> <<>>]
    /\ fd = [w \in Writers |-> "none"]
    /\ calls = 0
    /\ last = NoCall
    /\ rd = NoRead
    /\ sig = NoSignal
    /\ orch = NoRequest

Next ==
    \E w \in Writers :
        \/ \E now \in Instants : Call(w, now)
        \/ SaveLoad(w, FALSE)
        \/ OpenTmp(w)
        \/ FlushTmp(w)
        \/ CloseTmp(w)
        \/ Replace(w)

Spec == Init /\ [][Next]_vars

(***************************************************************************)
(* SpecSerial: calls one at a time (the event loop runs save_history_entry *)
(* without a suspension point), a process that may die at any step, I/O    *)
(* calls that may fail, and a reader.                                      *)
(***************************************************************************)
\* a record written by an earlier run
Old(t) == process_latest_signal(0, t)

CallSerial(w, now) ==
    /\ \A v \in Writers : pc[v] = "idle"
    /\ Call(w, now)

\* lines 98-99: open, write or os.replace raised; the with block closes the
\* file, the handler prints and the call returns
SaveExcept(w) ==
    /\ pc[w] \in {"open", "write", "flushed", "replace"}
    /\ IF pc[w] \in {"write", "flushed"}
       THEN \E reached \in BOOLEAN :
                IF reached THEN WriteThrough(w, FALSE) ELSE disk' = disk
       ELSE disk' = disk
    /\ fd' = [fd EXCEPT ![w] = "none"]
    /\ Finish(w, "error")
    /\ UNCHANGED <<calls, rd, sig, orch>>

\* the process dies: what reached the files stays, the rest is lost
Crash(w) ==
    /\ pc[w] # "idle"
    /\ fd' = [fd EXCEPT ![w] = "none"]
    /\ Finish(w, "crash")
    /\ UNCHANGED <<disk, calls, rd, sig, orch>>

\* load_history opens HISTORY_FILE for reading only
DiskAfterLoad(d) == d

\* a caller of load_history (the export endpoint)
ReadAll(ioerr) ==
    /\ disk' = DiskAfterLoad(disk)
    /\ LET r == LoadHistory(disk.hist, ioerr) IN
       rd' = [result |-> r.result, warned |-> r.warned, raised |-> r.raised,
              ioerr |-> ioerr, src |-> disk.hist, after |-> disk'.hist,
              for |-> last]
    /\ UNCHANGED <<pc, entry, data, fd, calls, last, sig, orch>>

InitSerial ==
    /\ disk \in [hist : {Absent, EmptyFile(0), PartialFile(0), JsonFile(<<>>)}
                        \cup {JsonFile(<<Old(t)>>) : t \in Instants},
                 tmp : {Absent}]
    /\ pc = [w \in Writers |-> "idle"]
    /\ entry = [w \in Writers |-> Idle]
    /\ data = [w \in Writers |-> <<>>]
    /\ fd = [w \in Writers |-> "none"]
    /\ calls = 0
    /\ last = NoCall
    /\ rd = NoRead
    /\ sig = NoSignal
    /\ orch = NoRequest

NextSerial ==
    \/ \E w \in Writers :
        \/ \E now \in Instants : CallSerial(w, now)
        \/ \E ioerr \in BOOLEAN : SaveLoad(w, ioerr)
        \/ OpenTmp(w)
        \/ FlushTmp(w)
        \/ CloseTmp(w)
        \/ Replace(w)
        \/ SaveExcept(w)
        \/ Crash(w)
    \/ \E ioerr \in BOOLEAN : ReadAll(ioerr)

SpecSerial == InitSerial /\ [][NextSerial]_vars

(***************************************************************************)
(* The strategy agent.  A float is NaN or a number; a comparison with NaN  *)
(* is false.                                                               *)
(***************************************************************************)
SMA_SHORT_PERIOD == 20
SMA_LONG_PERIOD == 50
RSI_PERIOD == 14
RSI_OVERBOUGHT == 70
RSI_OVERSOLD == 30

MaxLen == 52

NaN == [nan |-> TRUE, v |-> 0]
Num(n) == [nan |-> FALSE, v |-> n]

Lt(a, b) == ~a.nan /\ ~b.nan /\ a.v < b.v
Le(a, b) == ~a.nan /\ ~b.nan /\ a.v <= b.v
Gt(a, b) == Lt(b, a)
Ge(a, b) == Le(b, a)

\* random.randint(a, b), r being what the generator yields
randint(a, b, r) == a + (r % (b - a + 1))

\* the draws that make randint reach every value of every band
RandomSource == 0..20

\* mutant: the oversold rule is tried after the death cross
decide_signal_DeathFirst(prev_sma_s, prev_sma_l, last_sma_s, last_sma_l, last_rsi, r) ==
    LET is_golden_cross == Le(prev_sma_s, prev_sma_l) /\ Gt(last_sma_s, last_sma_l)
        is_oversold == Lt(last_rsi, Num(RSI_OVERSOLD))
        is_death_cross == Ge(prev_sma_s, prev_sma_l) /\ Lt(last_sma_s, last_sma_l)
        is_overbought == Gt(last_rsi, Num(RSI_OVERBOUGHT))
    IN  IF is_golden_cross
        THEN [signal |-> "BUY", confidence |-> randint(80, 95, r),
              comment |-> "GOLDEN CROSS", draws |-> 1]
        ELSE IF is_death_cross
        THEN [signal |-> "SELL", confidence |-> randint(80, 95, r),
              comment |-> "DEATH CROSS", draws |-> 1]
        ELSE IF is_oversold
        THEN [signal |-> "BUY", confidence |-> randint(70, 85, r),
              comment |-> "RSI oversold", draws |-> 1]
        ELSE IF is_overbought
        THEN [signal |-> "SELL", confidence |-> randint(70, 85, r),
              comment |-> "RSI overbought", draws |-> 1]
        ELSE IF Lt(Num(RSI_OVERSOLD), last_rsi) /\ Lt(last_rsi, Num(RSI_OVERBOUGHT))
        THEN [signal |-> "HOLD", confidence |-> randint(50, 65, r),
              comment |-> "consolidating", draws |-> 1]
        ELSE [signal |-> "HOLD", confidence |-> randint(30, 50, r),
              comment |-> "neutral or mixed", draws |-> 1]

\* mutant: the HOLD bands are swapped
decide_signal_HoldSwapped(prev_sma_s, prev_sma_l, last_sma_s, last_sma_l, last_rsi, r) ==
    LET is_golden_cross == Le(prev_sma_s, prev_sma_l) /\ Gt(last_sma_s, last_sma_l)
        is_oversold == Lt(last_rsi, Num(RSI_OVERSOLD))
        is_death_cross == Ge(prev_sma_s, prev_sma_l) /\ Lt(last_sma_s, last_sma_l)
        is_overbought == Gt(last_rsi, Num(RSI_OVERBOUGHT))
    IN  IF is_golden_cross
        THEN [signal |-> "BUY", confidence |-> randint(80, 95, r),
              comment |-> "GOLDEN CROSS", draws |-> 1]
        ELSE IF is_oversold
        THEN [signal |-> "BUY", confidence |-> randint(70, 85, r),
              comment |-> "RSI oversold", draws |-> 1]
        ELSE IF is_death_cross
        THEN [signal |-> "SELL", confidence |-> randint(80, 95, r),
              comment |-> "DEATH CROSS", draws |-> 1]
        ELSE IF is_overbought
        THEN [signal |-> "SELL", confidence |-> randint(70, 85, r),
              comment |-> "RSI overbought", draws |-> 1]
        ELSE IF Lt(Num(RSI_OVERSOLD), last_rsi) /\ Lt(last_rsi, Num(RSI_OVERBOUGHT))
        THEN [signal |-> "HOLD", confidence |-> randint(30, 50, r),
              comment |-> "consolidating", draws |-> 1]
        ELSE [signal |-> "HOLD", confidence |-> randint(50, 65, r),
              comment |-> "neutral or mixed", draws |-> 1]

\* decide_signal (lines 60-112); comment names the text returned, draws counts
\* the calls of random.randint
\* mutant: the neutral band of HOLD is narrower than the two thresholds
decide_signal_NarrowNeutral(prev_sma_s, prev_sma_l, last_sma_s, last_sma_l, last_rsi, r) ==
    LET is_golden_cross == Le(prev_sma_s, prev_sma_l) /\ Gt(last_sma_s, last_sma_l)
        is_oversold == Lt(last_rsi, Num(RSI_OVERSOLD))
        is_death_cross == Ge(prev_sma_s, prev_sma_l) /\ Lt(last_sma_s, last_sma_l)
        is_overbought == Gt(last_rsi, Num(RSI_OVERBOUGHT))
    IN  IF is_golden_cross
        THEN [signal |-> "BUY", confidence |-> randint(80, 95, r),
              comment |-> "GOLDEN CROSS", draws |-> 1]
        ELSE IF is_oversold
        THEN [signal |-> "BUY", confidence |-> randint(70, 85, r),
              comment |-> "RSI oversold", draws |-> 1]
        ELSE IF is_death_cross
        THEN [signal |-> "SELL", confidence |-> randint(80, 95, r),
              comment |-> "DEATH CROSS", draws |-> 1]
        ELSE IF is_overbought
        THEN [signal |-> "SELL", confidence |-> randint(70, 85, r),
              comment |-> "RSI overbought", draws |-> 1]
        ELSE IF Lt(Num(RSI_OVERSOLD + 1), last_rsi) /\ Lt(last_rsi, Num(RSI_OVERBOUGHT - 1))
        THEN [signal |-> "HOLD", confidence |-> randint(50, 65, r),
              comment |-> "consolidating", draws |-> 1]
        ELSE [signal |-> "HOLD", confidence |-> randint(30, 50, r),
              comment |-> "neutral or mixed", draws |-> 1]

decide_signal(prev_sma_s, prev_sma_l, last_sma_s, last_sma_l, last_rsi, r) ==
    LET is_golden_cross == Le(prev_sma_s, prev_sma_l) /\ Gt(last_sma_s, last_sma_l)
        is_oversold == Lt(last_rsi, Num(RSI_OVERSOLD))
        is_death_cross == Ge(prev_sma_s, prev_sma_l) /\ Lt(last_sma_s, last_sma_l)
        is_overbought == Gt(last_rsi, Num(RSI_OVERBOUGHT))
    IN  IF is_golden_cross
        THEN [signal |-> "BUY", confidence |-> randint(80, 95, r),
              comment |-> "GOLDEN CROSS", draws |-> 1]
        ELSE IF is_oversold
        THEN [signal |-> "BUY", confidence |-> randint(70, 85, r),
              comment |-> "RSI oversold", draws |-> 1]
        ELSE IF is_death_cross
        THEN [signal |-> "SELL", confidence |-> randint(80, 95, r),
              comment |-> "DEATH CROSS", draws |-> 1]
        ELSE IF is_overbought
        THEN [signal |-> "SELL", confidence |-> randint(70, 85, r),
              comment |-> "RSI overbought", draws |-> 1]
        ELSE IF Lt(Num(RSI_OVERSOLD), last_rsi) /\ Lt(last_rsi, Num(RSI_OVERBOUGHT))
        THEN [signal |-> "HOLD", confidence |-> randint(50, 65, r),
              comment |-> "consolidating", draws |-> 1]
        ELSE [signal |-> "HOLD", confidence |-> randint(30, 50, r),
              comment |-> "neutral or mixed", draws |-> 1]

(***************************************************************************)
(* SpecDecide: decide_signal applied to any five floats.                   *)
(***************************************************************************)
SmaCases == {NaN, Num(1), Num(2)}
RsiCases == {NaN} \cup {Num(n) : n \in {0, 29, 30, 31, 50, 69, 70, 71, 100}}

NoStore ==
    /\ disk = [hist |-> Absent, tmp |-> Absent]
    /\ pc = [w \in Writers |-> "idle"]
    /\ entry = [w \in Writers |-> Idle]
    /\ data = [w \in Writers |-> <<>>]
    /\ fd = [w \in Writers |-> "none"]
    /\ calls = 0
    /\ last = NoCall
    /\ rd = NoRead

InitDecide ==
    /\ NoStore
    /\ orch = NoRequest
    /\ sig \in [op : {"decide_signal"}, done : {FALSE},
                prev_sma_s : SmaCases, prev_sma_l : SmaCases,
                last_sma_s : SmaCases, last_sma_l : SmaCases,
                last_rsi : RsiCases, out : {<<>>}]

Decide(r) ==
    /\ sig.op = "decide_signal"
    /\ ~sig.done
    /\ sig' = [sig EXCEPT !.done = TRUE,
                          !.out = decide_signal(sig.prev_sma_s, sig.prev_sma_l,
                                                sig.last_sma_s, sig.last_sma_l,
                                                sig.last_rsi, r)]
    /\ UNCHANGED <<storeVars, orch>>

NextDecide == \E r \in RandomSource : Decide(r)

SpecDecide == InitDecide /\ [][NextDecide]_vars

(***************************************************************************)
(* The indicators.  A series is the Close column, oldest first.  The       *)
(* closes are integers, and a mean over a window is kept as a multiple of  *)
(* 1 / SmaScale, so that the means over the two windows are integers on    *)
(* one scale and compare exactly.                                          *)
(***************************************************************************)
SmaScale == SMA_SHORT_PERIOD * SMA_LONG_PERIOD

RECURSIVE SumRange(_, _, _)
SumRange(series, lo, hi) ==
    IF lo > hi THEN 0 ELSE series[hi] + SumRange(series, lo, hi - 1)

\* mutant: rolling(window, min_periods=1), the mean of a partial window
sma_Partial(series, window) ==
    [i \in 1..Len(series) |->
        IF i < window THEN Num((SumRange(series, 1, i) * SmaScale) \div i)
        ELSE Num(SumRange(series, i - window + 1, i) * (SmaScale \div window))]

\* sma: series.rolling(window=window).mean(); min_periods defaults to the
\* window, so the first window - 1 values are NaN
sma(series, window) ==
    [i \in 1..Len(series) |->
        IF i < window THEN NaN
        ELSE Num(SumRange(series, i - window + 1, i) * (SmaScale \div window))]

\* delta = series.diff().fillna(0)
Delta(series) ==
    [i \in 1..Len(series) |-> IF i = 1 THEN 0 ELSE series[i] - series[i - 1]]

\* gain = delta.clip(lower=0)
Gain(series) ==
    LET delta == Delta(series)
    IN  [i \in 1..Len(series) |-> IF delta[i] > 0 THEN delta[i] ELSE 0]

\* loss = -delta.clip(upper=0)
Loss(series) ==
    LET delta == Delta(series)
    IN  [i \in 1..Len(series) |-> IF delta[i] < 0 THEN -delta[i] ELSE 0]

\* x.ewm(span=period, adjust=False, min_periods=period).mean(), for x >= 0:
\* y[1] = x[1] and y[i] = (1 - a) * y[i-1] + a * x[i] with a = 2 / (period + 1),
\* reported as NaN while fewer than period values have been seen.  Both
\* weights are positive and the inputs are not negative, so y[i] is exactly
\* 0 when y[i-1] and x[i] are 0 and positive otherwise, and that is what is
\* kept of a mean: "zero" or "pos" ("nan" for NaN).
ewm_step(prev, xi) == IF prev = "pos" \/ xi > 0 THEN "pos" ELSE "zero"

RECURSIVE ewm_from(_, _, _, _, _, _)
ewm_from(x, n, period, i, prev, acc) ==
    IF i > n THEN acc
    ELSE LET y == IF i = 1 THEN ewm_step("zero", x[1]) ELSE ewm_step(prev, x[i])
         IN  ewm_from(x, n, period, i + 1, y,
                      Append(acc, IF i < period THEN "nan" ELSE y))

ewm_mean(x, period) == ewm_from(x, Len(x), period, 1, "zero", <<>>)

\* avg_loss.replace(0, np.nan)
replace_zero_nan(m) == IF m = "zero" THEN "nan" ELSE m

\* rs = avg_gain / avg_loss.replace(0, np.nan)
rs_of(avg_gain, avg_loss) ==
    IF avg_gain = "nan" \/ replace_zero_nan(avg_loss) = "nan" THEN "nan"
    ELSE avg_gain

\* an RSI value: a float known exactly, or some float strictly between 0
\* and 100
Exactly(f) == [exact |-> TRUE, val |-> f]
Between == [exact |-> FALSE, val |-> NaN]

\* 100 - (100 / (1 + rs))
rsi_of(rs) ==
    IF rs = "nan" THEN Exactly(NaN)
    ELSE IF rs = "zero" THEN Exactly(Num(0))
    ELSE Between

\* mutant: the NaN values are left as they are
fillna50_None(c) == c

\* .fillna(50)
fillna50(c) == IF c.exact /\ c.val.nan THEN Exactly(Num(50)) ELSE c

\* rsi, lines 23-40
rsi(series, period) ==
    LET avg_gain == ewm_mean(Gain(series), period)
        avg_loss == ewm_mean(Loss(series), period)
    IN  [i \in 1..Len(series) |-> fillna50(rsi_of(rs_of(avg_gain[i], avg_loss[i])))]

\* compute_indicators
compute_indicators(df) ==
    [Close |-> df,
     SMA_S |-> sma(df, SMA_SHORT_PERIOD),
     SMA_L |-> sma(df, SMA_LONG_PERIOD),
     RSI |-> rsi(df, RSI_PERIOD)]

\* the floats an RSI value may be: itself when exact, else one of each side
\* of the two thresholds
RsiValues(c) ==
    IF c.exact THEN {c.val}
    ELSE {Num(n) : n \in {1, 29, 30, 31, 50, 69, 70, 71, 99}}

\* generate_latest_signal, lines 118-166: the results it may return, one for
\* each float rsi_val that the last RSI may be and each r that the random
\* generator may yield
generate_latest_signal(df) ==
    LET df_enhanced == compute_indicators(df)
        n == Len(df_enhanced.Close)
    IN  IF n < SMA_LONG_PERIOD
        THEN {[action |-> "HOLD", AI_Confidence |-> 10,
               ai_comment |-> "Insufficient data", draws |-> 0,
               has_latest_close |-> FALSE, args |-> <<>>]}
        ELSE IF n < 2
        THEN {[action |-> "HOLD", AI_Confidence |-> 10,
               ai_comment |-> "Not enough data points", draws |-> 0,
               has_latest_close |-> FALSE, args |-> <<>>]}
        ELSE LET prev_sma_s == df_enhanced.SMA_S[n - 1]
                 prev_sma_l == df_enhanced.SMA_L[n - 1]
                 last_sma_s == df_enhanced.SMA_S[n]
                 last_sma_l == df_enhanced.SMA_L[n]
                 result(rsi_val, r) ==
                     LET d == decide_signal(prev_sma_s, prev_sma_l, last_sma_s,
                                            last_sma_l, rsi_val, r)
                     IN  [action |-> d.signal, AI_Confidence |-> d.confidence,
                          ai_comment |-> d.comment, draws |-> d.draws,
                          has_latest_close |-> TRUE,
                          args |-> <<prev_sma_s, prev_sma_l, last_sma_s,
                                     last_sma_l, rsi_val>>]
             IN  {result(rsi_val, r) :
                     rsi_val \in RsiValues(df_enhanced.RSI[n]),
                     r \in RandomSource}

(***************************************************************************)
(* SpecSignal: rsi and generate_latest_signal applied to a price series.   *)
(* The series start at 1000, move by slope at every step, and end with two *)
(* steps of any of the jumps.                                              *)
(***************************************************************************)
Slopes == {-1, 0, 1}
Jumps == {-600, -1, 0, 1, 600}

Series(n, slope, d1, d2) ==
    LET close(i) ==
            1000
            + slope * (IF i <= n - 2 THEN i - 1 ELSE IF n >= 3 THEN n - 3 ELSE 0)
            + (IF i >= n - 1 /\ n >= 3 THEN d1 ELSE 0)
            + (IF i = n /\ n >= 2 THEN d2 ELSE 0)
    IN  SubSeq([i \in 1..n |-> close(i)], 1, n)

InitSignal ==
    /\ NoStore
    /\ orch = NoRequest
    /\ \E n \in 0..MaxLen : \E slope \in Slopes : \E d1, d2 \in Jumps :
        \E op \in {"rsi", "compute_indicators", "generate_latest_signal"} :
            sig = [op |-> op, done |-> FALSE, df |-> Series(n, slope, d1, d2),
                   out |-> <<>>]

CallRsi ==
    /\ sig.op = "rsi"
    /\ ~sig.done
    /\ sig' = [sig EXCEPT !.done = TRUE, !.out = rsi(sig.df, RSI_PERIOD)]
    /\ UNCHANGED <<storeVars, orch>>

CallComputeIndicators ==
    /\ sig.op = "compute_indicators"
    /\ ~sig.done
    /\ sig' = [sig EXCEPT !.done = TRUE, !.out = compute_indicators(sig.df)]
    /\ UNCHANGED <<storeVars, orch>>

CallGenerateLatestSignal ==
    /\ sig.op = "generate_latest_signal"
    /\ ~sig.done
    /\ \E out \in generate_latest_signal(sig.df) :
        sig' = [sig EXCEPT !.done = TRUE, !.out = out]
    /\ UNCHANGED <<storeVars, orch>>

NextSignal ==
    \/ CallRsi
    \/ CallComputeIndicators
    \/ CallGenerateLatestSignal

SpecSignal == InitSignal /\ [][NextSignal]_vars

(***************************************************************************)
(* The orchestrator: process_asset_pipeline run as asyncio tasks by the    *)
(* three analysis endpoints.  One event loop thread runs the tasks, so a   *)
(* task runs alone from one suspension point to the next.                  *)
(***************************************************************************)
MaxBatch == 2

\* symbol_list: what is left of the comma-separated query string, here up to
\* MaxBatch different tickers, each named by its place in the list
SymbolLists == {[i \in 1..n |-> i] : n \in 1..MaxBatch}

\* a key that a dict does not hold
Missing == "<missing>"

\* the value of AI_Confidence: an int from the strategy agent, a str in the
\* error results
PyInt(n) == [type |-> "int", int |-> n, str |-> ""]
PyStr(t) == [type |-> "str", int |-> 0, str |-> t]

\* the frames the data source returns: too short for the long SMA, and
\* long enough
Frames == {Series(2, 0, 0, 0), Series(SMA_LONG_PERIOD + 1, 0, 0, 0)}

\* lines 64-69: the dict of generate_latest_signal with Symbol and
\* data_source added
signal_dict(symbol, sd, use_mock_data) ==
    [Symbol |-> symbol, Signal |-> Missing, action |-> sd.action,
     AI_Confidence |-> PyInt(sd.AI_Confidence), ai_comment |-> sd.ai_comment,
     has_latest_close |-> sd.has_latest_close,
     data_source |-> IF use_mock_data THEN "MOCK" ELSE "REAL",
     llm_commentary |-> Missing, llm_commentary_error |-> Missing]

\* mutant: the fetch error is reported with the confidence of a forced HOLD
fetch_error_result_Hold(symbol, detail, use_mock_data) ==
    [Symbol |-> symbol, Signal |-> "ERROR", action |-> Missing,
     AI_Confidence |-> PyInt(10), ai_comment |-> detail,
     has_latest_close |-> FALSE,
     data_source |-> IF use_mock_data THEN "MOCK" ELSE "REAL_FAIL",
     llm_commentary |-> Missing, llm_commentary_error |-> Missing]

\* lines 50-59: the dict returned when the data source gave an error dict
fetch_error_result(symbol, detail, use_mock_data) ==
    [Symbol |-> symbol, Signal |-> "ERROR", action |-> Missing,
     AI_Confidence |-> PyStr("0%"), ai_comment |-> detail,
     has_latest_close |-> FALSE,
     data_source |-> IF use_mock_data THEN "MOCK" ELSE "REAL_FAIL",
     llm_commentary |-> Missing, llm_commentary_error |-> Missing]

\* hco_quant_api.py lines 116-122: the dict of run_single_analysis for a
\* pipeline that raised
analysis_failed_result(symbol) ==
    [Symbol |-> symbol, Signal |-> "ERROR", action |-> Missing,
     AI_Confidence |-> PyStr("0%"),
     ai_comment |-> "Analysis failed or timed out.",
     has_latest_close |-> FALSE, data_source |-> Missing,
     llm_commentary |-> Missing, llm_commentary_error |-> Missing]

\* get_historical_data: a frame, or an error dict ("ok" / "error"); the mock
\* generator always returns a frame
FetchOutcomes(use_mock_data) ==
    IF use_mock_data THEN {"ok"} ELSE {"ok", "error"}

\* ai_agent.generate_trade_comment up to its first suspension point: without
\* a model it returns a fixed string (lines 44-45); with one, line 72 calls
\* .replace on AI_Confidence, which raises AttributeError on an int and lets
\* a str through to run_in_executor (line 79)
generate_trade_comment(analysis_data, llm) ==
    IF ~llm
    THEN [kind |-> "return", value |-> "LLM service unavailable for commentary."]
    ELSE IF analysis_data.AI_Confidence.type = "int"
    THEN [kind |-> "raise", value |-> "AttributeError"]
    ELSE [kind |-> "executor", value |-> ""]

\* mutant: the commentary call is not guarded, its exception ends the run
commentary_step_Unguarded(signal_data, llm) ==
    LET c == generate_trade_comment(signal_data, llm) IN
    IF c.kind = "return"
    THEN [kind |-> "go", data |-> [signal_data EXCEPT !.llm_commentary = c.value]]
    ELSE IF c.kind = "raise"
    THEN [kind |-> "raise", data |-> signal_data]
    ELSE [kind |-> "suspend", data |-> signal_data]

\* lines 72-78: the commentary call and its handler
commentary_step(signal_data, llm) ==
    LET c == generate_trade_comment(signal_data, llm) IN
    IF c.kind = "return"
    THEN [kind |-> "go", data |-> [signal_data EXCEPT !.llm_commentary = c.value]]
    ELSE IF c.kind = "raise"
    THEN [kind |-> "go",
          data |-> [signal_data EXCEPT
                      !.llm_commentary_error = "LLM generation failed: AttributeError"]]
    ELSE [kind |-> "suspend", data |-> signal_data]

\* mutant: the history append is made before the commentary
pipeline_body_SaveFirst(symbol, use_mock_data, include_commentary, llm, fetch, sd, exc) ==
    IF fetch = "error"
    THEN [end |-> "return", saved |-> FALSE,
          result |-> fetch_error_result(symbol, "Failed to fetch historical data",
                                        use_mock_data),
          steps |-> <<"fetch", "return">>]
    ELSE IF exc
    THEN [end |-> "raise", saved |-> FALSE, result |-> Missing,
          steps |-> <<"fetch", "compute", "raise">>]
    ELSE LET signal_data == signal_dict(symbol, sd, use_mock_data)
             c == commentary_step(signal_data, llm)
         IN  IF ~include_commentary
             THEN [end |-> "return", saved |-> TRUE, result |-> signal_data,
                   steps |-> <<"fetch", "compute", "save", "return">>]
             ELSE IF c.kind = "go"
             THEN [end |-> "return", saved |-> TRUE, result |-> signal_data,
                   steps |-> <<"fetch", "compute", "save", "commentary",
                               "return">>]
             ELSE IF c.kind = "raise"
             THEN [end |-> "raise", saved |-> TRUE, result |-> signal_data,
                   steps |-> <<"fetch", "compute", "save", "commentary", "raise">>]
             ELSE [end |-> "suspend", saved |-> TRUE, result |-> signal_data,
                   steps |-> <<"fetch", "compute", "save", "commentary">>]

\* process_asset_pipeline from line 41 to its end, given what the data
\* source returned (fetch), the dict of the strategy agent (sd), and whether
\* the computation raised (exc): how the run ends, its result, whether
\* save_history_entry was called and the steps taken
pipeline_body(symbol, use_mock_data, include_commentary, llm, fetch, sd, exc) ==
    IF fetch = "error"
    THEN [end |-> "return", saved |-> FALSE,
          result |-> fetch_error_result(symbol, "Failed to fetch historical data",
                                        use_mock_data),
          steps |-> <<"fetch", "return">>]
    ELSE IF exc
    THEN [end |-> "raise", saved |-> FALSE, result |-> Missing,
          steps |-> <<"fetch", "compute", "raise">>]
    ELSE LET signal_data == signal_dict(symbol, sd, use_mock_data)
             c == commentary_step(signal_data, llm)
         IN  IF ~include_commentary
             THEN [end |-> "return", saved |-> TRUE, result |-> signal_data,
                   steps |-> <<"fetch", "compute", "save", "return">>]
             ELSE IF c.kind = "go"
             THEN [end |-> "return", saved |-> TRUE, result |-> c.data,
                   steps |-> <<"fetch", "compute", "commentary", "save",
                               "return">>]
             ELSE IF c.kind = "raise"
             THEN [end |-> "raise", saved |-> FALSE, result |-> Missing,
                   steps |-> <<"fetch", "compute", "commentary", "raise">>]
             ELSE [end |-> "suspend", saved |-> FALSE, result |-> Missing,
                   steps |-> <<"fetch", "compute", "commentary">>]

\* Python's None, null in the JSON text
None == "None"

\* mutant: the error marker is stored as the commentary
history_entry_WithMarker(symbol, signal_data, now) ==
    [id |-> process_latest_signal(symbol, now).id,
     timestamp |-> process_latest_signal(symbol, now).timestamp,
     action |-> IF signal_data.action = Missing THEN "HOLD" ELSE signal_data.action,
     price |-> IF signal_data.has_latest_close THEN "latest_close" ELSE None,
     confidence |-> signal_data.AI_Confidence,
     rationale |-> signal_data.ai_comment,
     llm_commentary |-> IF signal_data.llm_commentary # Missing
                        THEN signal_data.llm_commentary
                        ELSE IF signal_data.llm_commentary_error # Missing
                        THEN signal_data.llm_commentary_error
                        ELSE None,
     data_source |-> signal_data.data_source]

\* mutant: the record always carries a price
history_entry_Priced(symbol, signal_data, now) ==
    [id |-> process_latest_signal(symbol, now).id,
     timestamp |-> process_latest_signal(symbol, now).timestamp,
     action |-> IF signal_data.action = Missing THEN "HOLD" ELSE signal_data.action,
     price |-> "latest_close",
     confidence |-> signal_data.AI_Confidence,
     rationale |-> signal_data.ai_comment,
     llm_commentary |-> IF signal_data.llm_commentary = Missing THEN None
                        ELSE signal_data.llm_commentary,
     data_source |-> signal_data.data_source]

\* report_agent.process_latest_signal, lines 44-61, with the fields it takes
\* from signal_data: a key that is absent gives the default of its .get
history_entry(symbol, signal_data, now) ==
    [id |-> process_latest_signal(symbol, now).id,
     timestamp |-> process_latest_signal(symbol, now).timestamp,
     action |-> IF signal_data.action = Missing THEN "HOLD" ELSE signal_data.action,
     price |-> IF signal_data.has_latest_close THEN "latest_close" ELSE None,
     confidence |-> signal_data.AI_Confidence,
     rationale |-> signal_data.ai_comment,
     llm_commentary |-> IF signal_data.llm_commentary = Missing THEN None
                        ELSE signal_data.llm_commentary,
     data_source |-> signal_data.data_source]

\* mutant: the entry is added to a history loaded before the appends of the
\* other tasks, as an append interleaved with theirs would
save_history_entry_Stale(d, e) ==
    [hist |-> JsonFile(AppendAndSort(<<>>, e)), tmp |-> Absent]

\* save_history_entry run without a suspension point and without a fault:
\* the files after it
save_history_entry(d, e) ==
    [hist |-> JsonFile(AppendAndSort(LoadHistory(d.hist, FALSE).result, e)),
     tmp |-> Absent]

\* of the dicts the strategy agent may return for a frame, the ones with the
\* lowest and the highest confidence
BandEnds(S) ==
    {sd \in S : \/ \A o \in S : o.AI_Confidence >= sd.AI_Confidence
                \/ \A o \in S : o.AI_Confidence <= sd.AI_Confidence}

\* what the strategy agent returns for the frames of the data source
StrategyResults == UNION {BandEnds(generate_latest_signal(df)) : df \in Frames}

\* the mock generator returns days * int(interval_hours) rows, never a series
\* too short for the long SMA
MockStrategyResults ==
    UNION {BandEnds(generate_latest_signal(df)) :
              df \in {f \in Frames : Len(f) >= SMA_LONG_PERIOD}}

\* a task that asyncio.gather or asyncio.wait_for has just created
NewTask ==
    [pc |-> "created", steps |-> <<>>, fetch |-> "none", result |-> Missing,
     saves |-> 0]

BatchEndpoints == {"multi", "dashboard"}

InitPipeline ==
    /\ NoStore
    /\ sig = NoSignal
    /\ \E ep \in {"single"} \cup BatchEndpoints :
       \E use_mock_data, include_commentary, llm \in BOOLEAN :
       \E symbol_list \in SymbolLists :
        /\ ep = "single" => Len(symbol_list) = 1
        /\ orch = [ep |-> ep, use_mock_data |-> use_mock_data,
                   include_commentary |-> include_commentary, llm |-> llm,
                   symbol_list |-> symbol_list,
                   task |-> [i \in 1..Len(symbol_list) |-> NewTask],
                   finished |-> <<>>, call |-> "running", error |-> "none",
                   results |-> <<>>]

Tasks == 1..Len(orch.symbol_list)

\* hco_quant_api.py lines 105-122: run_single_analysis turns an exception of
\* the pipeline into an error dict; the other endpoints await the pipeline
\* itself
run_single_analysis(ep, symbol, b) ==
    IF ep = "multi" /\ b.end = "raise"
    THEN [b EXCEPT !.end = "return", !.result = analysis_failed_result(symbol)]
    ELSE b

\* the task runs from the fetch to its end
Run(i, fetch, sd, exc, now) ==
    LET symbol == orch.symbol_list[i]
        b == run_single_analysis(orch.ep, symbol,
                 pipeline_body(symbol, orch.use_mock_data,
                               orch.include_commentary, orch.llm, fetch, sd, exc))
        t == orch.task[i]
    IN  /\ disk' = IF b.saved
                   THEN save_history_entry(disk, history_entry(symbol, b.result, now))
                   ELSE disk
        /\ orch' = [orch EXCEPT
                      !.task[i] = [pc |-> IF b.end = "return" THEN "done"
                                          ELSE IF b.end = "raise" THEN "raised"
                                          ELSE "commentary",
                                   steps |-> t.steps \o b.steps,
                                   fetch |-> fetch,
                                   result |-> b.result,
                                   saves |-> t.saves + (IF b.saved THEN 1 ELSE 0)],
                      !.finished = IF b.end = "suspend" THEN @ ELSE Append(@, i)]
        /\ UNCHANGED <<pc, entry, data, fd, calls, last, rd, sig>>

\* the first step of a task; the loop starts the tasks in the order of their
\* creation.  Line 39: with real data the task sleeps first
TaskStartSleep(i) ==
    /\ orch.ep # "none"
    /\ i \in Tasks
    /\ orch.task[i].pc = "created"
    /\ \A j \in 1..(i - 1) : orch.task[j].pc # "created"
    /\ ~orch.use_mock_data
    /\ orch' = [orch EXCEPT !.task[i].pc = "sleep", !.task[i].steps = <<"sleep">>]
    /\ UNCHANGED <<storeVars, sig>>

\* with mock data there is no suspension point before the fetch
TaskStartMock(i, sd, exc, now) ==
    /\ orch.ep # "none"
    /\ i \in Tasks
    /\ orch.task[i].pc = "created"
    /\ \A j \in 1..(i - 1) : orch.task[j].pc # "created"
    /\ orch.use_mock_data
    /\ sd \in MockStrategyResults
    /\ Run(i, "ok", sd, exc, now)

\* asyncio.sleep is over
TaskWake(i, fetch, sd, exc, now) ==
    /\ orch.ep # "none"
    /\ i \in Tasks
    /\ orch.task[i].pc = "sleep"
    /\ fetch \in FetchOutcomes(orch.use_mock_data)
    /\ Run(i, fetch, sd, exc, now)

\* mutant: the cancellation is caught and the run goes on to the append
cancel_Swallowed(t) ==
    [t EXCEPT !.pc = "done", !.steps = Append(@, "save"), !.saves = @ + 1]

\* CancelledError is thrown into the task at its suspension point; line 39 is
\* outside every try block and the handler of line 77 catches Exception, which
\* CancelledError is not
cancel(t) == [t EXCEPT !.pc = "cancelled", !.steps = Append(@, "cancelled")]

\* hco_quant_api.py lines 70-79: the timeout of wait_for fires while the
\* pipeline is suspended
Timeout(now) ==
    /\ orch.ep = "single"
    /\ orch.call = "running"
    /\ orch.task[1].pc \in {"sleep", "commentary"}
    /\ LET t == cancel(orch.task[1]) IN
        /\ orch' = [orch EXCEPT !.task[1] = t, !.call = "raised", !.error = "504"]
        /\ disk' = IF t.saves > orch.task[1].saves
                   THEN save_history_entry(disk,
                            process_latest_signal(orch.symbol_list[1], now))
                   ELSE disk
    /\ UNCHANGED <<pc, entry, data, fd, calls, last, rd, sig>>

\* hco_quant_api.py lines 81-87: wait_for returned the dict of the pipeline,
\* or let its exception through
SingleReturn ==
    /\ orch.ep = "single"
    /\ orch.call = "running"
    /\ orch.task[1].pc \in {"done", "raised"}
    /\ orch' = IF orch.task[1].pc = "raised"
               THEN [orch EXCEPT !.call = "raised", !.error = "exception"]
               ELSE IF orch.task[1].result.Signal = "ERROR"
               THEN [orch EXCEPT !.call = "raised", !.error = "500"]
               ELSE [orch EXCEPT !.call = "returned",
                                 !.results = <<orch.task[1].result>>]
    /\ UNCHANGED <<storeVars, sig>>

\* mutant: the results are collected in the order of completion
gather_AsCompleted(task, finished) ==
    [k \in 1..Len(task) |-> task[finished[k]].result]

\* asyncio.gather(*tasks): the results in the order of the awaitables
gather(task, finished) == [k \in 1..Len(task) |-> task[k].result]

\* asyncio.gather, every task done
GatherReturn ==
    /\ orch.ep \in BatchEndpoints
    /\ orch.call = "running"
    /\ \A i \in Tasks : orch.task[i].pc = "done"
    /\ orch' = [orch EXCEPT !.call = "returned",
                            !.results = gather(orch.task, orch.finished)]
    /\ UNCHANGED <<storeVars, sig>>

\* asyncio.gather without return_exceptions: the first exception of a task is
\* raised to the awaiting caller at once, the other tasks are left running.
\* The callback that does so is queued behind the first step of every task.
GatherRaise ==
    /\ orch.ep \in BatchEndpoints
    /\ orch.call = "running"
    /\ \E i \in Tasks : orch.task[i].pc = "raised"
    /\ \A i \in Tasks : orch.task[i].pc # "created"
    /\ orch' = [orch EXCEPT !.call = "raised", !.error = "exception"]
    /\ UNCHANGED <<storeVars, sig>>

NextPipeline ==
    \/ \E i \in 1..MaxBatch : TaskStartSleep(i)
    \/ \E i \in 1..MaxBatch : \E sd \in StrategyResults : \E exc \in BOOLEAN :
        \E now \in Instants : TaskStartMock(i, sd, exc, now)
    \/ \E i \in 1..MaxBatch : \E fetch \in {"ok", "error"} :
        \E sd \in StrategyResults : \E exc \in BOOLEAN : \E now \in Instants :
            TaskWake(i, fetch, sd, exc, now)
    \/ \E now \in Instants : Timeout(now)
    \/ SingleReturn
    \/ GatherReturn
    \/ GatherRaise

SpecPipeline == InitPipeline /\ [][NextPipeline]_vars

(***************************************************************************)
(* SpecMock: one run of process_asset_pipeline for AAPL on the series of   *)
(* utils/mock_data.py.  Prices are in cents (the generator rounds to two   *)
(* decimals), so that the factors of the forcing rule are exact.           *)
(***************************************************************************)
\* mock_data.py line 86: the base price of AAPL
base_price_AAPL == 310

\* quant_async_pipeline.py line 44: days=60, interval_hours=6
days == 60
interval_hours == 6

ForceTypes ==
    {"BUY_CROSS", "SELL_CROSS", "RSI_OVERSOLD", "RSI_OVERBOUGHT", "NATURAL_HOLD"}

\* _force_signal_on_last_rows on the Close column, for the force_type that
\* random.choices picked
force_signal_on_last_rows(df, force_type) ==
    LET n == Len(df) IN
    IF n < SMA_LONG_PERIOD THEN df
    ELSE LET prev_close == df[n - 1]
             last_close == df[n]
         IN  CASE force_type = "BUY_CROSS" ->
                    [df EXCEPT ![n] = (last_close * 110) \div 100]
               [] force_type = "SELL_CROSS" ->
                    [df EXCEPT ![n] = (last_close * 90) \div 100]
               [] force_type = "RSI_OVERSOLD" ->
                    [df EXCEPT ![n] = (prev_close * 85) \div 100]
               [] force_type = "RSI_OVERBOUGHT" ->
                    [df EXCEPT ![n] = (prev_close * 115) \div 100]
               [] OTHER -> df

\* the rows of the mock series that the model keeps, its last ones: the SMAs
\* of the last two rows are made of the last SMA_LONG_PERIOD + 1 closes
MockRows == 52

\* generate_mock_ohlcv for AAPL, lines 84-123: N = days * int(interval_hours)
\* closes of a random walk from the base price, then the forcing.  Of the
\* random walks, the ones that move by slope times 20 cents at every step
\* (within the volatility of 0.5 per cent); of their N rows, the last MockRows
generate_mock_ohlcv(slope, force_type) ==
    LET N == days * interval_hours
        close_prices ==
            [i \in 1..MockRows |->
                base_price_AAPL * 100 + slope * 20 * (N - MockRows + i - 1)]
    IN  force_signal_on_last_rows(close_prices, force_type)

InitMock ==
    /\ NoStore
    /\ sig = NoSignal
    /\ \E slope \in Slopes : \E force_type \in ForceTypes :
       \E include_commentary, llm \in BOOLEAN :
        orch = [ep |-> "single", use_mock_data |-> TRUE,
                include_commentary |-> include_commentary, llm |-> llm,
                symbol_list |-> <<1>>, task |-> <<NewTask>>,
                finished |-> <<>>, call |-> "running", error |-> "none",
                results |-> <<>>,
                mock |-> [slope |-> slope, force_type |-> force_type]]

\* process_asset_pipeline(AAPL, use_mock_data=True), which has no suspension
\* point before its end
MockRun(exc, now) ==
    /\ orch.ep = "single"
    /\ orch.task[1].pc = "created"
    /\ \E sd \in generate_latest_signal(
                    generate_mock_ohlcv(orch.mock.slope, orch.mock.force_type)) :
            Run(1, "ok", sd, exc, now)

NextMock ==
    \/ \E exc \in BOOLEAN : \E now \in Instants : MockRun(exc, now)
    \/ SingleReturn

SpecMock == InitMock /\ [][NextMock]_vars

(***************************************************************************)
(* Properties of the history store.                                        *)
(***************************************************************************)
Range(s) == {s[i] : i \in 1..Len(s)}

\* what load_history returns when the read itself does not fail
History(c) == LoadHistory(c, FALSE).result

AllReturned == \A w \in Writers : pc[w] = "idle"

\* C1: once N >= 1 appends of distinct records by parallel writers on an
\* initially empty, readable store have all returned, the durable history
\* holds exactly N records (no lost update).
C1_NoLostUpdate ==
    (AllReturned /\ calls >= 1) => Len(History(disk.hist)) = calls

ChronologicallySorted(h) ==
    \A i, j \in 1..Len(h) :
        i < j => InstantLeq(fromisoformat(h[i].timestamp),
                            fromisoformat(h[j].timestamp))

\* C3: after a save_history_entry call has completed, whatever the
\* interleaving and the order of the timestamps, the history held by the
\* durable file is ordered non-decreasingly by timestamp.
C3_SortedAfterAppend ==
    last.outcome # "none" => ChronologicallySorted(History(disk.hist))

\* two appends have completed, the later one with the earlier timestamp
C3_Witness ==
    /\ AllReturned
    /\ last.outcome = "ok"
    /\ disk.hist.kind = "json"
    /\ Len(disk.hist.recs) = 2
    /\ disk.hist.recs[1].id > disk.hist.recs[2].id
    /\ disk.hist.recs[1].timestamp # disk.hist.recs[2].timestamp

\* C2: with a single writer, every step of save_history_entry, a crash at
\* any point included, leaves the durable file as it was or replaces it by
\* the complete serialization of the loaded history with the entry added;
\* the durable file is never truncated nor half-written.
C2_AtomicReplace ==
    [][\/ disk'.hist = disk.hist
       \/ \E w \in Writers : \E ioerr \in BOOLEAN :
            /\ pc[w] = "replace"
            /\ disk'.hist =
                 JsonFile(AppendAndSort(LoadHistory(disk.hist, ioerr).result,
                                        entry[w]))]_vars

\* the process died in the middle of the temporary file's write, and the
\* durable file still holds the complete history of before the call
C2_Witness ==
    /\ last.outcome = "crash"
    /\ disk.tmp.kind = "partial"
    /\ disk.hist.kind = "json"
    /\ Len(disk.hist.recs) >= 1
    /\ last.entry \notin Range(disk.hist.recs)

C6_AppendOnly ==
    [][Range(History(disk.hist)) \subseteq Range(History(disk'.hist))]_vars

(***************************************************************************)
(* Properties of the decision engine.                                      *)
(***************************************************************************)
\* the rule table of the specification, first match wins
ReferenceAction(ps, pl, ls, ll, lastRsi) ==
    CASE Le(ps, pl) /\ Gt(ls, ll) -> "BUY"
      [] ~(Le(ps, pl) /\ Gt(ls, ll)) /\ Lt(lastRsi, Num(30)) -> "BUY"
      [] ~(Le(ps, pl) /\ Gt(ls, ll)) /\ ~Lt(lastRsi, Num(30))
            /\ Ge(ps, pl) /\ Lt(ls, ll) -> "SELL"
      [] ~(Le(ps, pl) /\ Gt(ls, ll)) /\ ~Lt(lastRsi, Num(30))
            /\ ~(Ge(ps, pl) /\ Lt(ls, ll)) /\ Gt(lastRsi, Num(70)) -> "SELL"
      [] OTHER -> "HOLD"

\* C7: the action of decide_signal is the one of the first matching rule in
\* the order golden cross -> BUY, RSI < 30 -> BUY, death cross -> SELL,
\* RSI > 70 -> SELL, otherwise HOLD; so a golden cross with an overbought
\* RSI gives BUY, and a death cross with an oversold RSI gives BUY.
C7_FirstMatchWins ==
    sig.done =>
        /\ sig.out.signal = ReferenceAction(sig.prev_sma_s, sig.prev_sma_l,
                                            sig.last_sma_s, sig.last_sma_l,
                                            sig.last_rsi)
        /\ (Le(sig.prev_sma_s, sig.prev_sma_l) /\ Gt(sig.last_sma_s, sig.last_sma_l)
                /\ Gt(sig.last_rsi, Num(70))) => sig.out.signal = "BUY"
        /\ (Ge(sig.prev_sma_s, sig.prev_sma_l) /\ Lt(sig.last_sma_s, sig.last_sma_l)
                /\ Lt(sig.last_rsi, Num(30))) => sig.out.signal = "BUY"

\* a death cross with an oversold RSI has been decided
C7_Witness ==
    /\ sig.done
    /\ Ge(sig.prev_sma_s, sig.prev_sma_l) /\ Lt(sig.last_sma_s, sig.last_sma_l)
    /\ Lt(sig.last_rsi, Num(30))
    /\ sig.out.signal = "BUY"

\* C8: the confidence lies in the band of the rule that matched: [80,95]
\* for the two crosses, [70,85] for oversold and overbought, [50,65] for a
\* HOLD with 30 < RSI < 70 and [30,50] for any other HOLD.
C8_ConfidenceBands ==
    sig.done =>
        LET golden == Le(sig.prev_sma_s, sig.prev_sma_l) /\ Gt(sig.last_sma_s, sig.last_sma_l)
            death == Ge(sig.prev_sma_s, sig.prev_sma_l) /\ Lt(sig.last_sma_s, sig.last_sma_l)
            oversold == Lt(sig.last_rsi, Num(30))
            overbought == Gt(sig.last_rsi, Num(70))
            c == sig.out.confidence
        IN  /\ golden => c \in 80..95
            /\ (~golden /\ oversold) => c \in 70..85
            /\ (~golden /\ ~oversold /\ death) => c \in 80..95
            /\ (~golden /\ ~oversold /\ ~death /\ overbought) => c \in 70..85
            /\ (sig.out.signal = "HOLD" /\ Lt(Num(30), sig.last_rsi)
                    /\ Lt(sig.last_rsi, Num(70))) => c \in 50..65
            /\ (sig.out.signal = "HOLD" /\ ~(Lt(Num(30), sig.last_rsi)
                    /\ Lt(sig.last_rsi, Num(70)))) => c \in 30..50

\* a HOLD at an RSI of exactly 70 has drawn the top of its band
C8_Witness ==
    /\ sig.done
    /\ sig.out.signal = "HOLD"
    /\ sig.last_rsi = Num(70)
    /\ sig.out.confidence = 50

\* C9: for a series of fewer than SMA_LONG_PERIOD + 1 = 51 points,
\* generate_latest_signal returns HOLD with confidence 10 and the
\* insufficient-data rationale, and draws no random number.
C9_InsufficientData ==
    (sig.op = "generate_latest_signal" /\ sig.done
        /\ Len(sig.df) < SMA_LONG_PERIOD + 1) =>
        /\ sig.out.action = "HOLD"
        /\ sig.out.AI_Confidence = 10
        /\ sig.out.ai_comment = "Insufficient data"
        /\ sig.out.draws = 0

\* C10: at every index past the warm-up where the smoothed average loss is
\* exactly 0, rsi reports exactly 100.
C10_ZeroLossIs100 ==
    (sig.op = "rsi" /\ sig.done) =>
        \A i \in RSI_PERIOD..Len(sig.df) :
            ewm_mean(Loss(sig.df), RSI_PERIOD)[i] = "zero" =>
                sig.out[i] = Exactly(Num(100))

StrictlyRising(s) == \A i \in 2..Len(s) : s[i] > s[i - 1]

\* C11: on a series whose closes rise at every step, every RSI value from
\* the end of the warm-up on is a number, not NaN, that is at most 100 and
\* lies above the neutral 50 (a sequence that converges toward 100 does not
\* stay at 50).
C11_RisingTowards100 ==
    (sig.op = "rsi" /\ sig.done /\ StrictlyRising(sig.df)) =>
        \A i \in RSI_PERIOD..Len(sig.df) :
            /\ sig.out[i].exact
            /\ ~sig.out[i].val.nan
            /\ sig.out[i].val.v > 50
            /\ sig.out[i].val.v <= 100

\* C12: at every index before the warm-up of RSI_PERIOD observations is
\* over, rsi reports exactly 50.
C12_WarmupIs50 ==
    (sig.op = "rsi" /\ sig.done) =>
        \A i \in 1..Len(sig.df) :
            i < RSI_PERIOD => sig.out[i] = Exactly(Num(50))

C12_Witness ==
    /\ sig.op = "rsi" /\ sig.done
    /\ Len(sig.df) >= RSI_PERIOD
    /\ sig.df[2] # sig.df[1]
    /\ sig.out[RSI_PERIOD - 1] = Exactly(Num(50))
    /\ sig.out[RSI_PERIOD] # Exactly(Num(50))

RECURSIVE WindowSum(_, _, _)
WindowSum(s, i, w) == IF w = 0 THEN 0 ELSE s[i] + WindowSum(s, i - 1, w - 1)

StrictMean(col, series, w) ==
    \A i \in 1..Len(series) :
        /\ i < w => col[i] = NaN
        /\ i >= w => /\ ~col[i].nan
                     /\ col[i].v * w = SmaScale * WindowSum(series, i, w)

\* C13: both SMA columns of compute_indicators are undefined (NaN) where
\* fewer than window closes are available and are the arithmetic mean of
\* the last window closes elsewhere; no partial window is used.
C13_StrictSma ==
    (sig.op = "compute_indicators" /\ sig.done) =>
        /\ Len(sig.out.SMA_S) = Len(sig.df)
        /\ Len(sig.out.SMA_L) = Len(sig.df)
        /\ StrictMean(sig.out.SMA_S, sig.df, SMA_SHORT_PERIOD)
        /\ StrictMean(sig.out.SMA_L, sig.df, SMA_LONG_PERIOD)

C13_Witness ==
    /\ sig.op = "compute_indicators" /\ sig.done
    /\ Len(sig.df) > SMA_LONG_PERIOD
    /\ sig.df[Len(sig.df)] # sig.df[1]
    /\ sig.out.SMA_L[SMA_LONG_PERIOD - 1] = NaN
    /\ ~sig.out.SMA_L[SMA_LONG_PERIOD].nan
    /\ sig.out.SMA_S[SMA_SHORT_PERIOD - 1] = NaN

(***************************************************************************)
(* Properties of the orchestrator.                                         *)
(***************************************************************************)
Recorded(symbol) ==
    \E k \in 1..Len(History(disk.hist)) : History(disk.hist)[k].id = symbol

\* C14: a pipeline run whose data source failed has put one record for its
\* symbol into the history file by the time it returns.
C14_FailedFetchRecorded ==
    orch.ep # "none" =>
        \A i \in Tasks :
            (orch.task[i].pc = "done" /\ orch.task[i].fetch = "error") =>
                /\ orch.task[i].saves = 1
                /\ Recorded(orch.symbol_list[i])

\* C15: a pipeline run whose data source failed does not raise and computes
\* nothing: it returns a dict with Signal ERROR, the failed-source tag,
\* confidence "0%" and the detail of the failure as rationale.
C15_FetchErrorResult ==
    orch.ep # "none" =>
        \A i \in Tasks :
            orch.task[i].fetch = "error" =>
                /\ orch.task[i].pc = "done"
                /\ "compute" \notin Range(orch.task[i].steps)
                /\ orch.task[i].result.Symbol = orch.symbol_list[i]
                /\ orch.task[i].result.Signal = "ERROR"
                /\ orch.task[i].result.data_source = "REAL_FAIL"
                /\ orch.task[i].result.AI_Confidence = PyStr("0%")
                /\ orch.task[i].result.ai_comment = "Failed to fetch historical data"

C15_Witness ==
    /\ orch.ep = "single"
    /\ orch.task[1].fetch = "error"
    /\ orch.task[1].pc = "done"
    /\ orch.task[1].steps = <<"sleep", "fetch", "return">>

\* C16: once the timeout of a single-symbol request has fired, the caller
\* has the timeout error, the pipeline is cancelled and the history file
\* holds no record of that run, then and ever after.
C16_TimeoutLeavesNoRecord ==
    (orch.ep = "single" /\ orch.error = "504") =>
        /\ orch.call = "raised"
        /\ orch.task[1].pc = "cancelled"
        /\ orch.task[1].saves = 0
        /\ History(disk.hist) = <<>>

C16_Witness ==
    /\ orch.ep = "single"
    /\ orch.error = "504"
    /\ orch.include_commentary
    /\ orch.task[1].steps = <<"sleep", "cancelled">>

\* C17: a run whose commentary call raised has returned, carries the error
\* marker and no commentary, has appended its record, and returns the
\* action, confidence and rationale of the strategy agent.
C17_CommentaryFailureContinues ==
    orch.ep # "none" =>
        \A i \in Tasks :
            (orch.llm /\ "commentary" \in Range(orch.task[i].steps)) =>
                /\ orch.task[i].pc = "done"
                /\ orch.task[i].result.llm_commentary_error # Missing
                /\ orch.task[i].result.llm_commentary = Missing
                /\ orch.task[i].saves = 1
                /\ Recorded(orch.symbol_list[i])
                /\ \E sd \in StrategyResults :
                    /\ orch.task[i].result.action = sd.action
                    /\ orch.task[i].result.AI_Confidence = PyInt(sd.AI_Confidence)
                    /\ orch.task[i].result.ai_comment = sd.ai_comment

C17_Witness ==
    /\ orch.ep = "dashboard"
    /\ orch.include_commentary /\ orch.llm
    /\ orch.call = "returned"
    /\ \A i \in Tasks : orch.task[i].result.llm_commentary_error # Missing

\* C18: the result sequence of a batch has one element for each symbol of
\* the list, the i-th for the i-th symbol, whatever the order in which the
\* tasks finished.
C18_ResultsInInputOrder ==
    (orch.ep \in BatchEndpoints /\ orch.call = "returned") =>
        /\ Len(orch.results) = Len(orch.symbol_list)
        /\ \A i \in Tasks : orch.results[i].Symbol = orch.symbol_list[i]

C18_Witness ==
    /\ orch.ep \in BatchEndpoints
    /\ orch.call = "returned"
    /\ Len(orch.symbol_list) = MaxBatch
    /\ orch.finished[1] = MaxBatch

\* C19: a batch is never aborted by the failure of one symbol's pipeline, and
\* in the results of a batch the failure of a symbol is an error result.
C19_FailureIsolation ==
    orch.ep \in BatchEndpoints =>
        /\ orch.call # "raised"
        /\ \A i \in Tasks : orch.task[i].pc # "raised"

\* C20: when a batch call has returned or raised, every task of the batch
\* has settled.
C20_BatchSettled ==
    (orch.ep \in BatchEndpoints /\ orch.call # "running") =>
        \A i \in Tasks : orch.task[i].pc \in {"done", "raised"}

(***************************************************************************)
(* Further properties of the decision engine and of the indicators.        *)
(***************************************************************************)
Defined(x) == ~x.nan

NoCross(ps, pl, ls, ll) ==
    /\ ~(ps.v <= pl.v /\ ls.v > ll.v)
    /\ ~(ps.v >= pl.v /\ ls.v < ll.v)

\* C30: on defined inputs a HOLD of the low-conviction branch has no cross,
\* an RSI of exactly 30 or exactly 70 and a confidence in [30,50]; every
\* other HOLD has 30 < RSI < 70 and a confidence in [50,65].
C30_LowConvictionHold ==
    (/\ sig.op = "decide_signal" /\ sig.done
     /\ Defined(sig.prev_sma_s) /\ Defined(sig.prev_sma_l)
     /\ Defined(sig.last_sma_s) /\ Defined(sig.last_sma_l)
     /\ Defined(sig.last_rsi)
     /\ sig.out.signal = "HOLD") =>
        IF sig.out.comment = "neutral or mixed"
        THEN /\ sig.last_rsi.v \in {RSI_OVERSOLD, RSI_OVERBOUGHT}
             /\ NoCross(sig.prev_sma_s, sig.prev_sma_l, sig.last_sma_s, sig.last_sma_l)
             /\ sig.out.confidence \in 30..50
        ELSE /\ sig.last_rsi.v > RSI_OVERSOLD
             /\ sig.last_rsi.v < RSI_OVERBOUGHT
             /\ sig.out.confidence \in 50..65

C30_Witness ==
    /\ sig.op = "decide_signal" /\ sig.done
    /\ Defined(sig.prev_sma_s) /\ Defined(sig.prev_sma_l)
    /\ Defined(sig.last_sma_s) /\ Defined(sig.last_sma_l)
    /\ sig.last_rsi = Num(RSI_OVERBOUGHT)
    /\ sig.out.signal = "HOLD"
    /\ sig.out.comment = "neutral or mixed"
    /\ sig.out.confidence = 30

\* C23: whenever generate_latest_signal has called decide_signal, the four
\* SMA values it passed are defined.
C23_DecideOnDefinedSma ==
    (sig.op = "generate_latest_signal" /\ sig.done /\ sig.out.draws > 0) =>
        \A k \in 1..4 : Defined(sig.out.args[k])

(***************************************************************************)
(* Further properties of the history store.                                *)
(***************************************************************************)
WithKey(s, t) == SelectSeq(s, LAMBDA x : SortKey(x) = t)

Without(s, p) == SubSeq(s, 1, p - 1) \o SubSeq(s, p + 1, Len(s))

\* after is before with e added, e behind every record of its timestamp, the
\* records of each timestamp in the order they had in before
StablyAdded(before, e, after) ==
    \E p \in 1..Len(after) :
        /\ after[p] = e
        /\ \A j \in (p + 1)..Len(after) : SortKey(after[j]) # SortKey(e)
        /\ \A k \in 1..Len(before) :
            WithKey(Without(after, p), SortKey(before[k]))
                = WithKey(before, SortKey(before[k]))
        /\ Len(after) = Len(before) + 1

\* C24: the list that save_history_entry has sorted (lines 88-90) is the
\* loaded list with the new record added: records of equal timestamp keep
\* their order and the new record comes after all records of its timestamp.
C24_StableSort ==
    [][\A w \in Writers :
        (pc[w] = "load" /\ pc'[w] = "open") =>
            \/ StablyAdded(History(disk.hist), entry[w], data'[w])
            \/ StablyAdded(<<>>, entry[w], data'[w])]_vars

C24_Witness ==
    \E w \in Writers :
        /\ pc[w] = "open"
        /\ Len(data[w]) = 3
        /\ data[w][3] = entry[w]
        /\ data[w][1].id < data[w][2].id
        /\ \A k \in 1..3 : SortKey(data[w][k]) = SortKey(entry[w])

\* C25: with writers running at the same time, the history file is at every
\* moment absent or the complete JSON text of a list of records.
C25_NeverPartial == disk.hist.kind \in {"absent", "json"}

(***************************************************************************)
(* Further properties of the pipeline.                                     *)
(***************************************************************************)
\* the place of a step in the order fetch, indicators and decision (one call
\* of generate_latest_signal), commentary, history append, return
StepRank(step) ==
    CASE step = "sleep" -> 0
      [] step = "fetch" -> 1
      [] step = "compute" -> 2
      [] step = "commentary" -> 3
      [] step = "save" -> 4
      [] OTHER -> 5

InOrder(steps) ==
    \A j, k \in 1..Len(steps) : j < k => StepRank(steps[j]) < StepRank(steps[k])

Has(steps, step) == \E k \in 1..Len(steps) : steps[k] = step

\* C21: every pipeline run takes its steps in the order fetch, indicator
\* computation and decision, optional commentary, history append, return;
\* the append is made only after the decision, and after the commentary when
\* one was asked for, and a returned decision has been appended before.
C21_StepOrder ==
    orch.ep # "none" =>
        \A i \in Tasks :
            LET steps == orch.task[i].steps IN
            /\ InOrder(steps)
            /\ Has(steps, "save") =>
                  /\ Has(steps, "fetch") /\ Has(steps, "compute")
                  /\ orch.include_commentary => Has(steps, "commentary")
            /\ (Has(steps, "return") /\ Has(steps, "compute")) => Has(steps, "save")

\* a run with real data and commentary has taken every step
C21_Witness ==
    /\ orch.ep # "none"
    /\ \E i \in Tasks :
        orch.task[i].steps =
            <<"sleep", "fetch", "compute", "commentary", "save", "return">>

\* the records of the durable history that belong to a symbol
RecordsOf(symbol) ==
    LET h == History(disk.hist) IN {h[k] : k \in {j \in 1..Len(h) : h[j].id = symbol}}

\* the run of task i returned a decision whose commentary had failed
CommentaryFailed(i) ==
    /\ orch.task[i].pc = "done"
    /\ orch.task[i].result.Signal # "ERROR"
    /\ orch.task[i].result.llm_commentary_error # Missing

\* C26: when the commentary of a run failed, the record the run appended to
\* the history has a null llm_commentary; the error marker is part of the
\* returned dict only.
C26_FailedCommentaryStoredAsNull ==
    orch.ep # "none" =>
        \A i \in Tasks :
            CommentaryFailed(i) =>
                /\ RecordsOf(orch.symbol_list[i]) # {}
                /\ \A r \in RecordsOf(orch.symbol_list[i]) :
                        r.llm_commentary = None

\* a run whose commentary failed has returned and its record is stored
C26_Witness ==
    /\ orch.ep # "none"
    /\ \E i \in Tasks :
        /\ CommentaryFailed(i)
        /\ orch.task[i].result.llm_commentary = Missing
        /\ RecordsOf(orch.symbol_list[i]) # {}

\* the task has come to its end, by a return or by an exception
Settled(i) == orch.task[i].pc \in {"done", "raised"}

\* process_asset_pipeline itself returned (under analyze_multi_asset a task is
\* done as well when run_single_analysis has caught its exception)
PipelineReturned(i) ==
    orch.task[i].pc = "done" /\ ~Has(orch.task[i].steps, "raise")

\* the run of task i returned the forced HOLD of a series too short
InsufficientData(i) ==
    /\ orch.task[i].pc = "done"
    /\ orch.task[i].result.Signal # "ERROR"
    /\ ~orch.task[i].result.has_latest_close

\* the fetch-error branch and the cancelled run call save_history_entry not
\* once; the record of the forced HOLD has confidence 10 and a null price
NoSaveAndShortRecord(i) ==
    /\ (orch.task[i].fetch = "error" \/ orch.task[i].pc = "cancelled") =>
            orch.task[i].saves = 0
    /\ InsufficientData(i) =>
            /\ orch.task[i].result.action = "HOLD"
            /\ RecordsOf(orch.symbol_list[i]) # {}
            /\ \A r \in RecordsOf(orch.symbol_list[i]) :
                    r.confidence = PyInt(10) /\ r.price = None

\* C29 as stated: every run that obtained a price series and was not
\* cancelled has called save_history_entry exactly once, the forced HOLD of a
\* short series included (record with confidence 10 and null price); a run
\* that took the fetch-error branch or was cancelled has called it not once.
C29_OneSavePerRun ==
    orch.ep # "none" =>
        \A i \in Tasks :
            /\ (Settled(i) /\ orch.task[i].fetch = "ok") => orch.task[i].saves = 1
            /\ NoSaveAndShortRecord(i)

\* C29 amended: every run that obtained a price series and returned has
\* called save_history_entry exactly once, the forced HOLD of a short series
\* included (record with confidence 10 and null price); a run that took the
\* fetch-error branch, was cancelled, or ended by an exception has called it
\* not once.
C29_OneSavePerReturnedRun ==
    orch.ep # "none" =>
        \A i \in Tasks :
            /\ (PipelineReturned(i) /\ orch.task[i].fetch = "ok") =>
                    orch.task[i].saves = 1
            /\ Has(orch.task[i].steps, "raise") => orch.task[i].saves = 0
            /\ NoSaveAndShortRecord(i)

\* a forced HOLD has been returned and recorded
C29_Witness ==
    /\ orch.ep # "none"
    /\ \E i \in Tasks :
        /\ InsufficientData(i)
        /\ orch.task[i].saves = 1
        /\ RecordsOf(orch.symbol_list[i]) # {}

RECURSIVE SavesUpTo(_)
\* the save_history_entry calls of the first n tasks
SavesUpTo(n) == IF n = 0 THEN 0 ELSE orch.task[n].saves + SavesUpTo(n - 1)

C22_MockBuyCross ==
    (/\ orch.ep = "single"
     /\ orch.use_mock_data
     /\ orch.mock.force_type = "BUY_CROSS"
     /\ PipelineReturned(1))
        => LET result == orch.task[1].result IN
           /\ result.action = "BUY"
           /\ IF result.ai_comment = "GOLDEN CROSS"
              THEN result.AI_Confidence.int \in 80..95
              ELSE result.AI_Confidence.int \in 70..85
           /\ result.data_source = "MOCK"
           /\ Len(History(disk.hist)) = 1

(***************************************************************************)
(* Failures inside save_history_entry.                                     *)
(***************************************************************************)
\* the call of writer w, about to return, has met a failure: the handler of
\* lines 98-99 has caught an exception, or load_history has answered [] for a
\* file that holds records
FailureInCall(w) ==
    \/ last'.outcome = "error"
    \/ data[w] # AppendAndSort(History(disk.hist), entry[w])

\* C28: a save_history_entry call that met a failure during its load, sort,
\* temp-file write or replace returns to its caller and has left the durable
\* history file as it was.
C28_FailedSaveLeavesFile ==
    [][\A w \in Writers :
        (/\ pc[w] # "idle" /\ pc'[w] = "idle"
         /\ last'.outcome # "crash"
         /\ FailureInCall(w))
            => disk'.hist = disk.hist]_vars

====
